---------------------------- MODULE Spec2Model ----------------------------
(***************************************************************************)
(* State-machine model of js/script.js: the menu controller, the active    *)
(* link tracker, the progress-bar animator, the map toggle, the contact    *)
(* helpers with their toast, the download links and the cards.             *)
(*                                                                         *)
(* The page (which elements the document holds, where the toggle sits,     *)
(* whether window.PointerEvent exists) is chosen in Init and never         *)
(* changes.  Listeners are kept in registration order per target, as       *)
(* addEventListener keeps them; an event is dispatched to the listeners of *)
(* its target and then to those of the document (bubbling).                *)
(***************************************************************************)
EXTENDS Integers, Sequences, FiniteSets, TLC

VARIABLES
    page,        \* the static document: which elements exist and their attributes
    ready,       \* DOMContentLoaded has fired
    listeners,   \* per target, the registered listeners in registration order
    dataset,     \* toggle.dataset markers set by initMenu
    inits,       \* how many times initMenu has run
    clock,       \* Date.now()
    lastTouch,   \* initMenu's closure variable lastTouch
    show,        \* navUl.classList.contains('show')
    aria,        \* toggle's aria-expanded attribute ("absent" until first set)
    active,      \* the nav links carrying the class 'active'
    scrollY,     \* window.scrollY
    lastEv,      \* history: the last dispatched event, what it did (and when, for a touchstart)
    prevEv,      \* history: the touchstart or pointerdown on the toggle right before lastEv
    bars,        \* per progress bar: its running interval timers (each one's w), width, text
    animated,    \* initProgressObserver's closure variable animated
    observing,   \* the IntersectionObserver is connected to #habilidades
    starts,      \* history: how many times animateProgressBars has been called
    seen,        \* history: how many entries with isIntersecting have been delivered
    toast,       \* #contact-toast: textContent, style.opacity, class sr-only
    timers,      \* pending setTimeout callbacks of showToast, in registration order
    pendingWrites, \* clipboard.writeText promises not yet settled
    calls,       \* history: how many showToast calls have shown the toast
    shownAt,     \* history: Date.now() at the last such call
    uncaught,    \* history: exceptions and rejections that left a handler uncaught
    copies,      \* history: copy clicks, the toasts they led to, the last outcome
    map,         \* .map-responsive has 'expanded'; #map-toggle-btn's textContent
    cards,       \* per .card: has 'is-flipped', its tabindex attribute
    pressed,     \* per download link: has 'pressed'
    pressTimers, \* pending setTimeout(remove, 600) callbacks, in registration order
    mapClicks,   \* history: clicks dispatched to the map button's listener
    cardHist,    \* history: per card, 'is-flipped' before each of its last two toggles
    held,        \* history: per download link, the press delivered and not yet released
    sinceClick,  \* history: per download link, "clicked" from a click to the next press
    dlClicks     \* history: clicks dispatched to download links

setupVars == <<page, ready, listeners, dataset, inits>>
menuVars == <<lastTouch, show, aria, active, scrollY, lastEv, prevEv>>
progVars == <<bars, animated, observing, starts, seen>>
toastVars == <<toast, timers, pendingWrites, calls, shownAt, uncaught, copies>>

widgetVars == <<map, cards, pressed, pressTimers>>
widgetHist == <<mapClicks, cardHist, held, sinceClick, dlClicks>>

vars == <<setupVars, clock, menuVars, progVars, toastVars, widgetVars, widgetHist>>

-----------------------------------------------------------------------------
(* Bounds of the model *)

\* Date.now() when the page loads (any value >= TOUCH_IGNORE_MS: the epoch is far away).
LoadTime == 1000
\* The clock advances in steps of Step ms, at most MaxSteps times.
Step == 450
MaxSteps == 2
\* How many times initMenu may run on the same document.
MaxInits == 2
\* The most entries one IntersectionObserver callback delivers.
MaxEntries == 2
\* The most showToast calls (made or awaiting a clipboard write) in a run.
MaxToasts == 3
\* The most clicks on the map button, and on download links, in a run.
MaxClicks == 2

(* Program constants *)

TOUCH_IGNORE_MS == 900
\* the look-ahead added to window.scrollY by the scroll handler
ScrollBias == 120

Links == {"a1", "a2"}
\* the nav links in document order
LinkOrder == << "a1", "a2" >>

\* An href: '#' followed by a fragment, or anything else (hash FALSE).
Hash(id) == [hash |-> TRUE, frag |-> id]
External == [hash |-> FALSE, frag |-> "page"]

NoTouch == [touch |-> FALSE, gap |-> 0, flips |-> 0, opened |-> FALSE]

NoEvent == [type |-> "none", target |-> "none", pointerType |-> "none", key |-> "none"]

-----------------------------------------------------------------------------
(* The document *)

\* e.target.closest('nav'): the target is the nav element or inside it
InNav_ToggleOutside(pg, target) ==
    \/ target = "nav"
    \/ target \in pg.links

InNav(pg, target) ==
    \/ target = "nav"
    \/ target \in pg.links
    \/ target = "toggle" /\ pg.toggleInNav

\* e.target.closest('nav ul li a'): the nav link the target is (inside), if any
ClosestLink(pg, target) == IF target \in pg.links THEN target ELSE "null"

-----------------------------------------------------------------------------
(* initMenu's closures.  A dom record carries what the handlers read and   *)
(* write: show, aria, lastTouch, active, and two observations of the       *)
(* dispatch: flips (how often 'show' changed) and prevented.               *)

setExpanded(d, v) == [d EXCEPT !.aria = IF v THEN "true" ELSE "false"]

toggleMenu_WriteFirst(d, e, t) ==
    LET d1 == IF e.type = "touchstart"
              THEN [d EXCEPT !.prevented = TRUE, !.lastTouch = t] ELSE d
        d2 == IF e.type = "pointerdown" /\ e.pointerType = "touch"
              THEN [d1 EXCEPT !.lastTouch = t] ELSE d1
        now == ~d2.show
    IN  IF e.type \in {"click", "pointerdown"} /\ t - d2.lastTouch < TOUCH_IGNORE_MS
        THEN d2
        ELSE setExpanded([d2 EXCEPT !.show = now, !.flips = @ + 1], now)

toggleMenu(d, e, t) ==
    IF e.type \in {"click", "pointerdown"} /\ t - d.lastTouch < TOUCH_IGNORE_MS
    THEN d
    ELSE LET d1 == IF e.type = "touchstart"
                   THEN [d EXCEPT !.prevented = TRUE, !.lastTouch = t] ELSE d
             d2 == IF e.type = "pointerdown" /\ e.pointerType = "touch"
                   THEN [d1 EXCEPT !.lastTouch = t] ELSE d1
             now == ~d2.show
         IN  setExpanded([d2 EXCEPT !.show = now, !.flips = @ + 1], now)

\* toggle.addEventListener('pointerdown', ...)
onPointerdown_NoWindow(d, e, t) ==
    LET d1 == IF e.pointerType = "touch"
              THEN [d EXCEPT !.prevented = TRUE, !.lastTouch = t] ELSE d
        now == ~d1.show
    IN  setExpanded([d1 EXCEPT !.show = now, !.flips = @ + 1], now)

onPointerdown(d, e, t) ==
    toggleMenu(IF e.pointerType = "touch" THEN [d EXCEPT !.prevented = TRUE] ELSE d, e, t)

\* toggle.addEventListener('touchstart', ...)
onTouchstart(d, e, t) == toggleMenu([d EXCEPT !.prevented = TRUE], e, t)

\* toggle.addEventListener('keydown', ...)
onToggleKeydown(d, e, t) ==
    IF e.key \in {"Enter", " "}
    THEN toggleMenu([d EXCEPT !.prevented = TRUE], e, t)
    ELSE d

\* document.addEventListener('click', ...): close when clicking outside
onOutsideClick_NoAria(pg, d, e) ==
    IF ~d.show THEN d
    ELSE IF ~InNav(pg, e.target)
         THEN [d EXCEPT !.show = FALSE, !.flips = @ + 1]
         ELSE d

onOutsideClick(pg, d, e) ==
    IF ~d.show THEN d
    ELSE IF ~InNav(pg, e.target)
         THEN setExpanded([d EXCEPT !.show = FALSE, !.flips = @ + 1], FALSE)
         ELSE d

\* document.addEventListener('keydown', ...): close on Escape
onEscape(d, e) ==
    IF e.key = "Escape" /\ d.show
    THEN setExpanded([d EXCEPT !.show = FALSE, !.flips = @ + 1], FALSE)
    ELSE d

-----------------------------------------------------------------------------
(* initActiveLinks' click listener *)

onLinkClick_KeepActive(pg, d, e) ==
    LET a == ClosestLink(pg, e.target) IN
    IF a = "null" THEN d
    ELSE LET d1 == IF pg.href[a].hash THEN [d EXCEPT !.prevented = TRUE] ELSE d
             d2 == [d1 EXCEPT !.active = @ \cup {a}]
         IN  IF pg.navUl /\ d2.show
             THEN [d2 EXCEPT !.show = FALSE, !.flips = @ + 1]
             ELSE d2

onLinkClick(pg, d, e) ==
    LET a == ClosestLink(pg, e.target) IN
    IF a = "null" THEN d
    ELSE LET d1 == IF pg.href[a].hash THEN [d EXCEPT !.prevented = TRUE] ELSE d
             d2 == [d1 EXCEPT !.active = (@ \ pg.links) \cup {a}]
         IN  IF pg.navUl /\ d2.show
             THEN [d2 EXCEPT !.show = FALSE, !.flips = @ + 1]
             ELSE d2

\* document.querySelector(`nav ul li a[href="#${id}"]`): the first such link
FirstLink(pg, id) ==
    LET hits == {i \in DOMAIN LinkOrder :
                    LinkOrder[i] \in pg.links /\ pg.href[LinkOrder[i]] = Hash(id)}
    IN  IF hits = {} THEN "null"
        ELSE LinkOrder[CHOOSE i \in hits : \A j \in hits : i <= j]

\* The scroll listener's loop over the sections, y being scrollY + 120.
RECURSIVE ScanSections(_, _, _, _)
ScanSections(secs, pg, act, y) ==
    IF secs = << >> THEN act
    ELSE LET sec == Head(secs)
             link == FirstLink(pg, sec.id)
             act1 == IF y >= sec.top /\ y < sec.top + sec.height /\ link # "null"
                     THEN (act \ pg.links) \cup {link}
                     ELSE act
         IN  ScanSections(Tail(secs), pg, act1, y)

\* window.addEventListener('scroll', ...)
onScroll_NoBias(pg, d) ==
    [d EXCEPT !.active = ScanSections(pg.sections, pg, d.active, d.scrollY)]

onScroll(pg, d) ==
    [d EXCEPT !.active = ScanSections(pg.sections, pg, d.active, d.scrollY + ScrollBias)]

-----------------------------------------------------------------------------
(* Progress bars *)

Bars == {"b1", "b2"}

Digits == {"0", "1", "2", "3", "4", "5", "6", "7", "8", "9"}

DigitValue(c) ==
    CASE c = "0" -> 0 [] c = "1" -> 1 [] c = "2" -> 2 [] c = "3" -> 3 [] c = "4" -> 4
      [] c = "5" -> 5 [] c = "6" -> 6 [] c = "7" -> 7 [] c = "8" -> 8 [] c = "9" -> 9

NaN == [nan |-> TRUE, val |-> 0]
Number(n) == [nan |-> FALSE, val |-> n]

RECURSIVE SkipWhiteSpace(_)
SkipWhiteSpace(cs) ==
    IF cs # << >> /\ Head(cs) = " " THEN SkipWhiteSpace(Tail(cs)) ELSE cs

\* The longest prefix of decimal digits of cs, as [seen, val].
RECURSIVE ReadDigits(_, _)
ReadDigits(cs, acc) ==
    IF cs # << >> /\ Head(cs) \in Digits
    THEN ReadDigits(Tail(cs), [seen |-> TRUE, val |-> 10 * acc.val + DigitValue(Head(cs))])
    ELSE acc

\* parseInt(string, 10): leading white space, an optional sign, then digits;
\* NaN when no digit follows.
parseInt(cs) ==
    LET s1 == SkipWhiteSpace(cs)
        signed == s1 # << >> /\ Head(s1) \in {"+", "-"}
        neg == s1 # << >> /\ Head(s1) = "-"
        r == ReadDigits(IF signed THEN Tail(s1) ELSE s1, [seen |-> FALSE, val |-> 0])
    IN  IF ~r.seen THEN NaN
        ELSE Number(IF neg THEN 0 - r.val ELSE r.val)

\* parseInt(bar.dataset.progress || bar.getAttribute('data-progress') || 0, 10) || 0
\* An absent or empty attribute is falsy, and parseInt(0) reads the string "0".
ProgressTarget(attr) ==
    LET r == parseInt(IF attr.present /\ attr.chars # << >> THEN attr.chars ELSE << "0" >>)
    IN  IF r.nan \/ r.val = 0 THEN 0 ELSE r.val

\* One run of a bar's setInterval callback, for the k-th timer of the bar.
intervalTick_Overshoot(bar, k, target) ==
    LET w == bar.timers[k] IN
    IF w > target
    THEN [bar EXCEPT !.timers = SubSeq(@, 1, k - 1) \o SubSeq(@, k + 1, Len(@))]
    ELSE [bar EXCEPT !.timers[k] = w + 1,
                     !.width = [written |-> TRUE, pct |-> w + 1],
                     !.text = [written |-> TRUE, pct |-> w + 1]]

intervalTick(bar, k, target) ==
    LET w == bar.timers[k] IN
    IF w >= target
    THEN [bar EXCEPT !.timers = SubSeq(@, 1, k - 1) \o SubSeq(@, k + 1, Len(@))]
    ELSE [bar EXCEPT !.timers[k] = w + 1,
                     !.width = [written |-> TRUE, pct |-> w + 1],
                     !.text = [written |-> TRUE, pct |-> w + 1]]

\* animateProgressBars: every bar gets a new interval timer with w = 0.
animateProgressBars(bs) == [b \in DOMAIN bs |-> [bs[b] EXCEPT !.timers = Append(@, 0)]]

\* The observer callback's body for one entry; o is [bars, animated, observing, starts].
onEntry_NoFlagCheck(o, isIntersecting) ==
    IF isIntersecting
    THEN [bars |-> animateProgressBars(o.bars), animated |-> TRUE, observing |-> FALSE,
          starts |-> o.starts + 1]
    ELSE o

onEntry(o, isIntersecting) ==
    IF isIntersecting /\ ~o.animated
    THEN [bars |-> animateProgressBars(o.bars), animated |-> TRUE, observing |-> FALSE,
          starts |-> o.starts + 1]
    ELSE o

\* entries.forEach(...)
RECURSIVE onEntries(_, _)
onEntries(o, entries) ==
    IF entries = << >> THEN o
    ELSE onEntries(onEntry(o, Head(entries)), Tail(entries))

\* initProgressObserver
initProgressObserver(pg, o) ==
    IF pg.habilidades
    THEN [o EXCEPT !.animated = FALSE, !.observing = TRUE]
    ELSE [o EXCEPT !.bars = animateProgressBars(o.bars), !.starts = @ + 1]

-----------------------------------------------------------------------------
(* Contact helpers: the toast, the copy button, the form *)

DEFAULT_DURATION == 3000
FADE_MS == 300

MsgCopied == "Correo copiado al portapapeles"
MsgCopyFailed == "No se pudo copiar. Selecciona el correo manualmente."
MsgNoAction == "No hay destino configurado para el formulario"
MsgSending == "Enviando mensaje..."

\* showToast(msg, duration) called at time t
showToast_CancelPending(pg, d, msg, duration, t) ==
    IF ~pg.toast THEN d
    ELSE [d EXCEPT !.toast = [text |-> msg, opacity |-> "1", srOnly |-> FALSE],
                   !.timers = << [due |-> t + duration, kind |-> "fade"] >>,
                   !.calls = @ + 1,
                   !.shownAt = t,
                   !.said = msg]

showToast(pg, d, msg, duration, t) ==
    IF ~pg.toast THEN d
    ELSE [d EXCEPT !.toast = [text |-> msg, opacity |-> "1", srOnly |-> FALSE],
                   !.timers = Append(@, [due |-> t + duration, kind |-> "fade"]),
                   !.calls = @ + 1,
                   !.shownAt = t,
                   !.said = msg]

\* The two setTimeout callbacks of showToast, run at time t; tt is [toast, timers].
onTimeout_NoHide(tt, kind, t) ==
    IF kind = "fade"
    THEN [tt EXCEPT !.toast.opacity = "0"]
    ELSE [tt EXCEPT !.toast.srOnly = TRUE]

onTimeout(tt, kind, t) ==
    IF kind = "fade"
    THEN [tt EXCEPT !.toast.opacity = "0",
                    !.timers = Append(@, [due |-> t + FADE_MS, kind |-> "hide"])]
    ELSE [tt EXCEPT !.toast.srOnly = TRUE]

\* copyBtn.addEventListener('click', async ...) up to its await: without
\* navigator.clipboard the call throws inside the try and the catch runs at once.
onCopyClick(pg, d, t) ==
    IF ~pg.clipboard
    THEN showToast(pg, d, MsgCopyFailed, DEFAULT_DURATION, t)
    ELSE [d EXCEPT !.pendingWrites = @ + 1]

\* the rest of the handler, once the promise settles: a rejection is thrown at
\* the await, inside the try, and the catch block shows the failure toast
afterWrite_NoCatch(pg, d, ok, t) ==
    IF ok
    THEN showToast(pg, [d EXCEPT !.pendingWrites = @ - 1], MsgCopied, DEFAULT_DURATION, t)
    ELSE [d EXCEPT !.pendingWrites = @ - 1, !.uncaught = @ + 1]

afterWrite(pg, d, ok, t) ==
    showToast(pg, [d EXCEPT !.pendingWrites = @ - 1],
              IF ok THEN MsgCopied ELSE MsgCopyFailed, DEFAULT_DURATION, t)

\* form.addEventListener('submit', ...)
onSubmit_AbsentOnly(pg, d, t) ==
    IF ~pg.formAction.present
    THEN showToast(pg, [d EXCEPT !.prevented = TRUE], MsgNoAction, DEFAULT_DURATION, t)
    ELSE showToast(pg, d, MsgSending, DEFAULT_DURATION, t)

onSubmit(pg, d, t) ==
    LET actionUrl == IF pg.formAction.present THEN pg.formAction.chars ELSE << >> IN
    IF actionUrl = << >>
    THEN showToast(pg, [d EXCEPT !.prevented = TRUE], MsgNoAction, DEFAULT_DURATION, t)
    ELSE showToast(pg, d, MsgSending, DEFAULT_DURATION, t)

\* initContactHelpers
initContactHelpers(pg, ls) ==
    [ls EXCEPT !.copyBtn = @ \o (IF pg.copyBtn /\ pg.emailLink
                                 THEN << [on |-> "click", fn |-> "copyClick"] >>
                                 ELSE << >>),
               !.form = @ \o (IF pg.form
                              THEN << [on |-> "submit", fn |-> "submit"] >>
                              ELSE << >>)]

-----------------------------------------------------------------------------
(* The map toggle, the download links, the cards *)

\* the gap left above the map by the scroll that follows a toggle
MAP_OFFSET == 80
\* the delay of the removal a click on a download link schedules
PRESS_MS == 600

LabelCompact == "Ver mapa compacto"
LabelFull == "Ver mapa completo"

\* mapToggleBtn.addEventListener('click', ...); the smooth scroll is taken at
\* its end position, which the window clamps at 0
onMapClick_StaleLabel(pg, d) ==
    LET expanded == ~d.map.expanded
        top == pg.mapTop - MAP_OFFSET
    IN  [d EXCEPT !.map = [expanded |-> expanded,
                           label |-> IF d.map.expanded THEN LabelCompact ELSE LabelFull],
                  !.scrollY = IF top < 0 THEN 0 ELSE top]

onMapClick(pg, d) ==
    LET expanded == ~d.map.expanded
        top == pg.mapTop - MAP_OFFSET
    IN  [d EXCEPT !.map = [expanded |-> expanded,
                           label |-> IF expanded THEN LabelCompact ELSE LabelFull],
                  !.scrollY = IF top < 0 THEN 0 ELSE top]

\* initMapToggle
initMapToggle(pg, ls) ==
    IF ~pg.mapBtn \/ ~pg.mapBox THEN ls
    ELSE [ls EXCEPT !.mapBtn = @ \o << [on |-> "click", fn |-> "mapClick"] >>]

\* initDownloadButtons' closures for the link btn
add(d, btn) == [d EXCEPT !.pressed[btn] = TRUE]

remove(d, btn) == [d EXCEPT !.pressed[btn] = FALSE]

\* btn.addEventListener('click', () => setTimeout(remove, 600)) at time t
onDownloadClick_NoTimer(d, btn, t) == d

onDownloadClick(d, btn, t) ==
    [d EXCEPT !.pressTimers = Append(@, [due |-> t + PRESS_MS, btn |-> btn])]

DownloadListeners ==
    << [on |-> "touchstart", fn |-> "add"], [on |-> "mousedown", fn |-> "add"],
       [on |-> "touchend", fn |-> "remove"], [on |-> "mouseup", fn |-> "remove"],
       [on |-> "mouseleave", fn |-> "remove"], [on |-> "click", fn |-> "downloadClick"] >>

\* initDownloadButtons
initDownloadButtons(pg, ls) ==
    [ls EXCEPT !.downloads = [b \in DOMAIN @ |-> @[b] \o DownloadListeners]]

\* card.addEventListener('click', ...)
onCardClick(d, card) == [d EXCEPT !.cards[card].flipped = ~@]

\* card.addEventListener('keydown', ...)
onCardKeydown_SetOnly(d, e, card) ==
    IF e.key \in {"Enter", " "}
    THEN [d EXCEPT !.prevented = TRUE, !.cards[card].flipped = TRUE]
    ELSE d

onCardKeydown(d, e, card) ==
    IF e.key \in {"Enter", " "}
    THEN [d EXCEPT !.prevented = TRUE, !.cards[card].flipped = ~@]
    ELSE d

CardListeners ==
    << [on |-> "click", fn |-> "cardClick"], [on |-> "keydown", fn |-> "cardKeydown"] >>

\* initCards: [listeners, cards] after the run
initCards(pg, ls, cs) ==
    [ls |-> [ls EXCEPT !.cards = [c \in DOMAIN @ |-> @[c] \o CardListeners]],
     cards |-> [c \in DOMAIN cs |->
                   IF cs[c].tabindex = "absent" THEN [cs[c] EXCEPT !.tabindex = "0"]
                   ELSE cs[c]]]

-----------------------------------------------------------------------------
(* Event dispatch *)

\* One listener invoked for event e at time t.
Invoke(l, pg, d, e, t) ==
    IF l.on # e.type THEN d
    ELSE CASE l.fn = "pointerdown" -> onPointerdown(d, e, t)
           [] l.fn = "touchstart"  -> onTouchstart(d, e, t)
           [] l.fn = "toggleMenu"  -> toggleMenu(d, e, t)
           [] l.fn = "keydown"     -> onToggleKeydown(d, e, t)
           [] l.fn = "outsideClick" -> onOutsideClick(pg, d, e)
           [] l.fn = "escape"      -> onEscape(d, e)
           [] l.fn = "linkClick"   -> onLinkClick(pg, d, e)
           [] l.fn = "scrollSpy"   -> onScroll(pg, d)
           [] l.fn = "copyClick"   -> onCopyClick(pg, d, t)
           [] l.fn = "submit"      -> onSubmit(pg, d, t)
           [] l.fn = "mapClick"    -> onMapClick(pg, d)
           [] l.fn = "add"         -> add(d, e.target)
           [] l.fn = "remove"      -> remove(d, e.target)
           [] l.fn = "downloadClick" -> onDownloadClick(d, e.target, t)
           [] l.fn = "cardClick"   -> onCardClick(d, e.target)
           [] l.fn = "cardKeydown" -> onCardKeydown(d, e, e.target)
           [] OTHER -> d

\* The listeners of one target, in registration order.
RECURSIVE RunListeners(_, _, _, _, _)
RunListeners(ls, pg, d, e, t) ==
    IF ls = <<>> THEN d
    ELSE RunListeners(Tail(ls), pg, Invoke(Head(ls), pg, d, e, t), e, t)

\* Target phase, then bubbling to the document; a scroll goes to the window.
DispatchResult(pg, ls, d, e, t) ==
    IF e.target = "window" THEN RunListeners(ls.window, pg, d, e, t)
    ELSE LET atTarget ==
                 CASE e.target = "toggle"  -> RunListeners(ls.toggle, pg, d, e, t)
                   [] e.target = "copyBtn" -> RunListeners(ls.copyBtn, pg, d, e, t)
                   [] e.target = "form"    -> RunListeners(ls.form, pg, d, e, t)
                   [] e.target = "mapBtn"  -> RunListeners(ls.mapBtn, pg, d, e, t)
                   [] e.target \in DOMAIN ls.downloads ->
                          RunListeners(ls.downloads[e.target], pg, d, e, t)
                   [] e.target \in DOMAIN ls.cards ->
                          RunListeners(ls.cards[e.target], pg, d, e, t)
                   [] OTHER -> d
         IN  RunListeners(ls.document, pg, atTarget, e, t)

\* What the handlers see when the event is dispatched with window.scrollY = sy.
Dom(sy) == [show |-> show, aria |-> aria, lastTouch |-> lastTouch, active |-> active,
            scrollY |-> sy, toast |-> toast, timers |-> timers,
            pendingWrites |-> pendingWrites, calls |-> calls, shownAt |-> shownAt,
            uncaught |-> uncaught, map |-> map, cards |-> cards, pressed |-> pressed,
            pressTimers |-> pressTimers, flips |-> 0, prevented |-> FALSE, said |-> ""]

\* e is a toggle of a card: a click, or an Enter or Space keydown, delivered to
\* the card's listeners.
IsCardToggle(e) ==
    /\ e.target \in DOMAIN cards
    /\ listeners.cards[e.target] # << >>
    /\ e.type = "click" \/ (e.type = "keydown" /\ e.key \in {"Enter", " "})

\* The last two elements of a sequence.
LastTwo(seq) == IF Len(seq) <= 2 THEN seq ELSE SubSeq(seq, Len(seq) - 1, Len(seq))

\* r is the dom record the listeners leave (bound once, by \E over a singleton).
DispatchAt(e, sy) ==
    \E r \in {DispatchResult(page, listeners, Dom(sy), e, clock)} :
    /\ scrollY' = r.scrollY
    /\ show' = r.show
    /\ aria' = r.aria
    /\ lastTouch' = r.lastTouch
    /\ active' = r.active
    /\ toast' = r.toast
    /\ timers' = r.timers
    /\ pendingWrites' = r.pendingWrites
    /\ calls' = r.calls
    /\ shownAt' = r.shownAt
    /\ uncaught' = r.uncaught
    /\ copies' = IF e.type = "click" /\ e.target = "copyBtn" /\ listeners.copyBtn # << >>
                 THEN [copies EXCEPT !.clicks = @ + 1,
                                     !.toasts = @ + (r.calls - calls),
                                     !.outcome = IF page.clipboard THEN @ ELSE "unavailable",
                                     !.text = IF page.clipboard THEN @ ELSE r.said]
                 ELSE copies
    /\ lastEv' = [e |-> e, at |-> IF e.type = "touchstart" THEN clock ELSE 0,
                  flips |-> r.flips, prevented |-> r.prevented, said |-> r.said,
                  recentTouch |-> clock - lastTouch < TOUCH_IGNORE_MS,
                  showBefore |-> show, ariaBefore |-> aria, activeBefore |-> active,
                  cardsBefore |-> cards, inits |-> inits]
    /\ prevEv' = IF lastEv.e.target # "toggle" THEN NoTouch
                 ELSE IF lastEv.e.type = "touchstart"
                 THEN [touch |-> TRUE, gap |-> clock - lastEv.at, flips |-> lastEv.flips,
                       opened |-> lastEv.flips >= 1 /\ show]
                 ELSE IF lastEv.e.type = "pointerdown"
                 THEN [NoTouch EXCEPT !.opened = lastEv.flips >= 1 /\ show]
                 ELSE NoTouch
    /\ map' = r.map
    /\ cards' = r.cards
    /\ pressed' = r.pressed
    /\ pressTimers' = r.pressTimers
    /\ mapClicks' = IF e.target = "mapBtn" /\ e.type = "click" /\ listeners.mapBtn # << >>
                    THEN mapClicks + 1 ELSE mapClicks
    /\ cardHist' = IF IsCardToggle(e)
                   THEN [cardHist EXCEPT ![e.target] =
                            LastTwo(Append(@, cards[e.target].flipped))]
                   ELSE cardHist
    /\ held' = IF e.target \notin DOMAIN held THEN held
               ELSE CASE e.type = "mousedown" -> [held EXCEPT ![e.target] = "mouse"]
                      [] e.type = "touchstart" -> [held EXCEPT ![e.target] = "touch"]
                      [] e.type \in {"mouseup", "mouseleave", "touchend"} ->
                             [held EXCEPT ![e.target] = "none"]
                      [] OTHER -> held
    /\ sinceClick' = IF e.target \notin DOMAIN sinceClick THEN sinceClick
                     ELSE CASE e.type = "click" -> [sinceClick EXCEPT ![e.target] = "clicked"]
                            [] e.type \in {"mousedown", "touchstart"} ->
                                   [sinceClick EXCEPT ![e.target] = "pressed"]
                            [] OTHER -> sinceClick
    /\ dlClicks' = IF e.target \in DOMAIN pressed /\ e.type = "click"
                   THEN dlClicks + 1 ELSE dlClicks
    /\ UNCHANGED <<setupVars, clock, progVars>>

Dispatch(e) == DispatchAt(e, scrollY)

-----------------------------------------------------------------------------
(* Initialisers *)

\* The listeners initMenu registers on the toggle.
MenuToggleListeners(pg) ==
    (IF pg.PointerEvent
     THEN << [on |-> "pointerdown", fn |-> "pointerdown"] >>
     ELSE << [on |-> "touchstart", fn |-> "touchstart"],
             [on |-> "click", fn |-> "toggleMenu"] >>)
    \o << [on |-> "keydown", fn |-> "keydown"] >>

MenuDocumentListeners ==
    << [on |-> "click", fn |-> "outsideClick"], [on |-> "keydown", fn |-> "escape"] >>

\* The attach guard: has an earlier run marked the toggle?
AlreadyAttached_Never(ds) == FALSE

AlreadyAttached(ds) == "_menuAttached" \in ds \/ "toggleAttached" \in ds

\* initMenu: [listeners, dataset] after one run.
initMenu_NoGuard(pg, ls, ds) ==
    IF AlreadyAttached(ds) THEN [ls |-> ls, ds |-> ds]
    ELSE [ls |-> [ls EXCEPT !.toggle = @ \o MenuToggleListeners(pg),
                            !.document = @ \o MenuDocumentListeners],
          ds |-> ds \cup {"_menuAttached", "toggleAttached"}]

initMenu(pg, ls, ds) ==
    IF ~pg.toggle \/ ~pg.navUl THEN [ls |-> ls, ds |-> ds]
    ELSE IF AlreadyAttached(ds) THEN [ls |-> ls, ds |-> ds]
    ELSE [ls |-> [ls EXCEPT !.toggle = @ \o MenuToggleListeners(pg),
                            !.document = @ \o MenuDocumentListeners],
          ds |-> ds \cup {"_menuAttached", "toggleAttached"}]

\* initActiveLinks: the click listener, and the scroll listener if sections exist.
initActiveLinks(pg, ls) ==
    [ls EXCEPT !.document = @ \o << [on |-> "click", fn |-> "linkClick"] >>,
               !.window = @ \o (IF Len(pg.sections) > 0
                                THEN << [on |-> "scroll", fn |-> "scrollSpy"] >>
                                ELSE << >>)]

\* document.addEventListener('DOMContentLoaded', ...): the seven initializers
\* in the order of the source (initProgressObserver's state is disjoint from
\* the others').
DOMContentLoaded ==
    /\ ~ready
    /\ ready' = TRUE
    /\ LET m == initMenu(page, listeners, dataset)
           ls1 == initMapToggle(page, initActiveLinks(page, m.ls))
           ls2 == initDownloadButtons(page, initContactHelpers(page, ls1))
           c == initCards(page, ls2, cards)
       IN  /\ listeners' = c.ls
           /\ cards' = c.cards
           /\ dataset' = m.ds
    /\ LET o == initProgressObserver(page, [bars |-> bars, animated |-> animated,
                                            observing |-> observing, starts |-> starts]) IN
       /\ bars' = o.bars
       /\ animated' = o.animated
       /\ observing' = o.observing
       /\ starts' = o.starts
    /\ inits' = inits + 1
    /\ UNCHANGED <<page, clock, menuVars, seen, toastVars, map, pressed, pressTimers,
                   widgetHist>>

\* initMenu run again on the same document (the script included twice).
ReInitMenu ==
    /\ ready
    /\ inits < MaxInits
    /\ inits' = inits + 1
    /\ LET m == initMenu(page, listeners, dataset) IN
       /\ listeners' = m.ls
       /\ dataset' = m.ds
    /\ UNCHANGED <<page, ready, clock, menuVars, progVars, toastVars, widgetVars, widgetHist>>

-----------------------------------------------------------------------------
(* Events of the menu and the links *)

PointerDown(pt) ==
    /\ ready /\ page.toggle
    /\ Dispatch([type |-> "pointerdown", target |-> "toggle", pointerType |-> pt, key |-> "none"])

TouchStart ==
    /\ ready /\ page.toggle
    /\ Dispatch([type |-> "touchstart", target |-> "toggle", pointerType |-> "none", key |-> "none"])

ClickTargets == {"toggle", "nav", "body"} \cup Links

Click(target) ==
    /\ ready
    /\ target = "toggle" => page.toggle
    /\ target \in Links => target \in page.links
    /\ Dispatch([type |-> "click", target |-> target, pointerType |-> "none", key |-> "none"])

Keys == {"Enter", " ", "Escape"}

KeyDown(target, key) ==
    /\ ready
    /\ target = "toggle" => page.toggle
    /\ Dispatch([type |-> "keydown", target |-> target, pointerType |-> "none", key |-> key])

\* The user (or a smooth scrollIntoView) scrolls the window to sy.
Scroll(sy) ==
    /\ ready
    /\ DispatchAt([type |-> "scroll", target |-> "window", pointerType |-> "none",
                   key |-> "none"], sy)

\* Time passes.
Tick ==
    /\ ready
    /\ clock + Step <= LoadTime + MaxSteps * Step
    /\ clock' = clock + Step
    /\ UNCHANGED <<setupVars, menuVars, progVars, toastVars, widgetVars, widgetHist>>

-----------------------------------------------------------------------------
(* Steps of the progress bars *)

\* A bar's interval timer fires.
IntervalTick(b, k) ==
    /\ ready
    /\ b \in page.bars
    /\ k \in 1..Len(bars[b].timers)
    /\ bars' = [bars EXCEPT ![b] = intervalTick(@, k, ProgressTarget(page.progress[b]))]
    /\ UNCHANGED <<setupVars, clock, menuVars, animated, observing, starts, seen, toastVars,
                   widgetVars, widgetHist>>

Count(entries) == Cardinality({i \in DOMAIN entries : entries[i]})

\* The IntersectionObserver delivers entries (their isIntersecting flags).
ObserverCallback(entries) ==
    /\ ready
    /\ observing
    /\ LET o == onEntries([bars |-> bars, animated |-> animated, observing |-> observing,
                           starts |-> starts], entries) IN
       /\ bars' = o.bars
       /\ animated' = o.animated
       /\ observing' = o.observing
       /\ starts' = o.starts
    /\ seen' = seen + Count(entries)
    /\ UNCHANGED <<setupVars, clock, menuVars, toastVars, widgetVars, widgetHist>>

-----------------------------------------------------------------------------
(* Steps of the contact helpers *)

ToastBudget == calls + pendingWrites < MaxToasts

CopyClick ==
    /\ ready /\ page.copyBtn /\ ToastBudget
    /\ copies.clicks < MaxToasts
    /\ Dispatch([type |-> "click", target |-> "copyBtn", pointerType |-> "none", key |-> "none"])

Submit ==
    /\ ready /\ page.form /\ ToastBudget
    /\ Dispatch([type |-> "submit", target |-> "form", pointerType |-> "none", key |-> "none"])

\* navigator.clipboard.writeText's promise resolves (ok) or rejects.
ClipboardSettle(ok) ==
    /\ pendingWrites > 0
    /\ \E r \in {afterWrite(page, Dom(scrollY), ok, clock)} :
       /\ toast' = r.toast
       /\ timers' = r.timers
       /\ pendingWrites' = r.pendingWrites
       /\ calls' = r.calls
       /\ shownAt' = r.shownAt
       /\ uncaught' = r.uncaught
       /\ copies' = [copies EXCEPT !.toasts = @ + (r.calls - calls),
                                   !.outcome = IF ok THEN "resolved" ELSE "rejected",
                                   !.text = r.said]
    /\ UNCHANGED <<setupVars, clock, menuVars, progVars, widgetVars, widgetHist>>

\* The pending timeout that fires next: the earliest due, the first registered among equals.
NextTimer ==
    CHOOSE i \in DOMAIN timers :
        \A j \in DOMAIN timers :
            timers[i].due < timers[j].due \/ (timers[i].due = timers[j].due /\ i <= j)

Without(seq, i) == SubSeq(seq, 1, i - 1) \o SubSeq(seq, i + 1, Len(seq))

FireTimer ==
    /\ timers # << >>
    /\ timers[NextTimer].due <= clock
    /\ LET tt == onTimeout([toast |-> toast, timers |-> Without(timers, NextTimer)],
                           timers[NextTimer].kind, clock) IN
       /\ toast' = tt.toast
       /\ timers' = tt.timers
    /\ UNCHANGED <<setupVars, clock, menuVars, progVars, pendingWrites, calls, shownAt,
                   uncaught, copies, widgetVars, widgetHist>>

\* Time passes while timeouts are pending, never past the next one due.
Wait ==
    /\ timers # << >>
    /\ timers[NextTimer].due > clock
    /\ clock' = IF clock + FADE_MS < timers[NextTimer].due
                THEN clock + FADE_MS ELSE timers[NextTimer].due
    /\ UNCHANGED <<setupVars, menuVars, progVars, toastVars, widgetVars, widgetHist>>

-----------------------------------------------------------------------------
(* Steps of the map toggle, the cards and the download links *)

MapClick ==
    /\ ready /\ page.mapBtn
    /\ mapClicks < MaxClicks
    /\ Dispatch([type |-> "click", target |-> "mapBtn", pointerType |-> "none", key |-> "none"])

Cards == {"c1", "c2"}

CardClick(c) ==
    /\ ready /\ c \in page.cards
    /\ Dispatch([type |-> "click", target |-> c, pointerType |-> "none", key |-> "none"])

CardKeyDown(c, key) ==
    /\ ready /\ c \in page.cards
    /\ Dispatch([type |-> "keydown", target |-> c, pointerType |-> "none", key |-> key])

Downloads == {"d1", "d2"}

\* A pointer or a finger goes down on a download link nothing is holding.
Press(b, type) ==
    /\ ready /\ b \in page.downloads
    /\ held[b] = "none"
    /\ Dispatch([type |-> type, target |-> b, pointerType |-> "none", key |-> "none"])

\* The release that matches the press, or a mouse event on a link not held.
Release(b, type) ==
    /\ ready /\ b \in page.downloads
    /\ held[b] \in {"none", IF type = "touchend" THEN "touch" ELSE "mouse"}
    /\ Dispatch([type |-> type, target |-> b, pointerType |-> "none", key |-> "none"])

DownloadClick(b) ==
    /\ ready /\ b \in page.downloads
    /\ dlClicks < MaxClicks
    /\ Dispatch([type |-> "click", target |-> b, pointerType |-> "none", key |-> "none"])

\* The pending removal that fires next: the earliest due, the first registered among equals.
NextPressTimer ==
    CHOOSE i \in DOMAIN pressTimers :
        \A j \in DOMAIN pressTimers :
            \/ pressTimers[i].due < pressTimers[j].due
            \/ pressTimers[i].due = pressTimers[j].due /\ i <= j

\* A setTimeout(remove, 600) callback runs.
FirePressTimer ==
    /\ pressTimers # << >>
    /\ pressTimers[NextPressTimer].due <= clock
    /\ pressed' = remove([pressed |-> pressed], pressTimers[NextPressTimer].btn).pressed
    /\ pressTimers' = Without(pressTimers, NextPressTimer)
    /\ UNCHANGED <<setupVars, clock, menuVars, progVars, toastVars, map, cards, widgetHist>>

\* Time passes while removals are pending, never past the next one due.
PressWait ==
    /\ pressTimers # << >>
    /\ pressTimers[NextPressTimer].due > clock
    /\ clock' = IF clock + Step < pressTimers[NextPressTimer].due
                THEN clock + Step ELSE pressTimers[NextPressTimer].due
    /\ UNCHANGED <<setupVars, menuVars, progVars, toastVars, widgetVars, widgetHist>>

-----------------------------------------------------------------------------
(* The menu specification: a page with a nav list, links and a toggle.     *)

Absent == [present |-> FALSE, chars |-> << >>]
Attr(cs) == [present |-> TRUE, chars |-> cs]

\* A document holding none of the elements the script looks for.
EmptyPage ==
    [toggle |-> FALSE, navUl |-> FALSE, toggleInNav |-> FALSE, PointerEvent |-> TRUE,
     links |-> {}, href |-> [l \in Links |-> External], sections |-> << >>,
     bars |-> {}, progress |-> [b \in Bars |-> Absent], habilidades |-> FALSE,
     toast |-> FALSE, copyBtn |-> FALSE, emailLink |-> FALSE, clipboard |-> FALSE,
     form |-> FALSE, formAction |-> Absent,
     mapBtn |-> FALSE, mapBox |-> FALSE, mapExpanded |-> FALSE, mapTop |-> 0,
     cards |-> {}, downloads |-> {}]

MenuPages ==
    { [EmptyPage EXCEPT !.toggle = tg, !.navUl = ul, !.toggleInNav = tin,
                        !.PointerEvent = pe,
                        !.links = IF ul THEN {"a1"} ELSE {},
                        !.href = [l \in Links |-> IF l = "a1" THEN Hash("s1") ELSE External]] :
      tg \in BOOLEAN, ul \in BOOLEAN, tin \in BOOLEAN, pe \in BOOLEAN }

\* The map as the markup has it; the cards unflipped, no tabindex.
MarkupLabel == "markup"

NoWidgets ==
    /\ map = [expanded |-> page.mapExpanded, label |-> MarkupLabel]
    /\ cards = [c \in page.cards |-> [flipped |-> FALSE, tabindex |-> "absent"]]

InitCommon ==
    /\ ready = FALSE
    /\ listeners = [toggle |-> << >>, document |-> << >>, window |-> << >>,
                    copyBtn |-> << >>, form |-> << >>, mapBtn |-> << >>,
                    downloads |-> [b \in page.downloads |-> << >>],
                    cards |-> [c \in page.cards |-> << >>]]
    /\ dataset = {}
    /\ inits = 0
    /\ clock = LoadTime
    /\ lastTouch = 0
    /\ show = FALSE
    /\ aria = "absent"
    /\ scrollY = 0
    /\ lastEv = [e |-> NoEvent, at |-> 0, flips |-> 0, prevented |-> FALSE, said |-> "",
                 recentTouch |-> FALSE,
                 showBefore |-> FALSE, ariaBefore |-> "absent", activeBefore |-> {},
                 cardsBefore |-> cards, inits |-> 0]
    /\ prevEv = NoTouch
    /\ bars = [b \in page.bars |-> [timers |-> << >>,
                                     width |-> [written |-> FALSE, pct |-> 0],
                                     text |-> [written |-> FALSE, pct |-> 0]]]
    /\ animated = FALSE
    /\ observing = FALSE
    /\ starts = 0
    /\ seen = 0
    /\ toast = [text |-> "", opacity |-> "", srOnly |-> TRUE]
    /\ timers = << >>
    /\ pendingWrites = 0
    /\ calls = 0
    /\ shownAt = 0
    /\ uncaught = 0
    /\ copies = [clicks |-> 0, toasts |-> 0, outcome |-> "none", text |-> ""]
    /\ pressed = [b \in page.downloads |-> FALSE]
    /\ pressTimers = << >>
    /\ mapClicks = 0
    /\ cardHist = [c \in page.cards |-> << >>]
    /\ held = [b \in page.downloads |-> "none"]
    /\ sinceClick = [b \in page.downloads |-> "none"]
    /\ dlClicks = 0

InitMenu ==
    /\ page \in MenuPages
    /\ NoWidgets
    /\ InitCommon
    /\ active \in {s \in SUBSET page.links : Cardinality(s) <= 1}

NextMenu ==
    \/ DOMContentLoaded
    \/ ReInitMenu
    \/ \E pt \in {"mouse", "touch"} : PointerDown(pt)
    \/ TouchStart
    \/ \E target \in ClickTargets : Click(target)
    \/ \E key \in Keys : KeyDown("toggle", key)
    \/ KeyDown("body", "Escape")
    \/ Tick

SpecMenu == InitMenu /\ [][NextMenu]_vars

-----------------------------------------------------------------------------
(* The links specification: a page with nav links and sections, no toggle. *)

SectionTops == {0, 240, 480}
SectionHeights == {240, 360}
ScrollYs == {0, 120, 360, 600}

Section(id) == [id : {id}, top : SectionTops, height : SectionHeights]

SectionLayouts ==
    {<< >>} \cup {<< s >> : s \in Section("s1")}
            \cup {<< s, u >> : s \in Section("s1"), u \in Section("s2")}

LinkPages ==
    { [EmptyPage EXCEPT !.navUl = TRUE, !.links = Links,
                        !.href = [l \in Links |-> IF l = "a1" THEN h1 ELSE h2],
                        !.sections = secs] :
      h1 \in {Hash("s1"), External}, h2 \in {Hash("s1"), Hash("s2")},
      secs \in SectionLayouts }

InitLinks ==
    /\ page \in LinkPages
    /\ NoWidgets
    /\ InitCommon
    /\ active \in {s \in SUBSET page.links : Cardinality(s) <= 1}

NextLinks ==
    \/ DOMContentLoaded
    \/ \E target \in {"body"} \cup Links : Click(target)
    \/ \E sy \in ScrollYs : Scroll(sy)

SpecLinks == InitLinks /\ [][NextLinks]_vars

-----------------------------------------------------------------------------
(* The progress specification: a page with progress bars.                  *)

ProgressAttrs ==
    { Absent, Attr(<< >>), Attr(<< "0" >>), Attr(<< "3" >>), Attr(<< "7", "3" >>),
      Attr(<< "a", "b" >>), Attr(<< "-", "2" >>), Attr(<< "2", ".", "7" >>),
      Attr(<< "4", "p", "x" >>), Attr(<< " ", "5" >>), Attr(<< "+", "1" >>) }

ProgressPages ==
    { [EmptyPage EXCEPT !.habilidades = h, !.bars = bs,
                        !.progress = [b \in Bars |-> IF b = "b1" THEN p1 ELSE p2]] :
      h \in BOOLEAN, bs \in {{"b1"}, Bars}, p1 \in ProgressAttrs,
      p2 \in {Absent, Attr(<< "2" >>)} }

InitProgress ==
    /\ page \in ProgressPages
    /\ NoWidgets
    /\ active = {}
    /\ InitCommon

BoolSeqs(n) == UNION {[1..k -> BOOLEAN] : k \in 1..n}

NextProgress ==
    \/ DOMContentLoaded
    \/ \E entries \in BoolSeqs(MaxEntries) : ObserverCallback(entries)
    \/ \E b \in Bars, k \in 1..2 : IntervalTick(b, k)

SpecProgress == InitProgress /\ [][NextProgress]_vars

-----------------------------------------------------------------------------
(* The toast specification: a page with the contact section.               *)

ToastPages ==
    { [EmptyPage EXCEPT !.toast = t, !.copyBtn = TRUE, !.emailLink = TRUE,
                        !.clipboard = c, !.form = TRUE, !.formAction = a] :
      t \in BOOLEAN, c \in BOOLEAN, a \in {Absent, Attr(<< >>), Attr(<< "/", "s" >>)} }

InitToast ==
    /\ page \in ToastPages
    /\ NoWidgets
    /\ active = {}
    /\ InitCommon

NextToast ==
    \/ DOMContentLoaded
    \/ CopyClick
    \/ \E ok \in BOOLEAN : ClipboardSettle(ok)
    \/ Submit
    \/ FireTimer
    \/ Wait

SpecToast == InitToast /\ [][NextToast]_vars

-----------------------------------------------------------------------------
(* The map specification: a page with the map section, a form, a card and  *)
(* a download link, any of the menu and map elements possibly missing.     *)

MapPages ==
    { [EmptyPage EXCEPT !.toggle = tg, !.navUl = ul, !.mapBtn = mb, !.mapBox = mx,
                        !.mapExpanded = mx /\ ex, !.mapTop = top,
                        !.cards = {"c1"}, !.downloads = {"d1"}, !.form = TRUE] :
      tg \in BOOLEAN, ul \in BOOLEAN, mb \in BOOLEAN, mx \in BOOLEAN, ex \in BOOLEAN,
      top \in {40, 500} }

InitMap ==
    /\ page \in MapPages
    /\ NoWidgets
    /\ active = {}
    /\ InitCommon

NextMap ==
    \/ DOMContentLoaded
    \/ MapClick

SpecMap == InitMap /\ [][NextMap]_vars

-----------------------------------------------------------------------------
(* The cards specification: a page with two cards, flipped or not and with *)
(* or without a tabindex in the markup.                                    *)

CardPages == { [EmptyPage EXCEPT !.cards = Cards] }

InitCards ==
    /\ page \in CardPages
    /\ map = [expanded |-> FALSE, label |-> MarkupLabel]
    /\ cards \in [page.cards -> [flipped : BOOLEAN, tabindex : {"absent", "-1"}]]
    /\ active = {}
    /\ InitCommon

NextCards ==
    \/ DOMContentLoaded
    \/ \E c \in Cards : CardClick(c)
    \/ \E c \in Cards, key \in Keys : CardKeyDown(c, key)

SpecCards == InitCards /\ [][NextCards]_vars

-----------------------------------------------------------------------------
(* The downloads specification: a page with two download links.            *)

DownloadPages == { [EmptyPage EXCEPT !.downloads = Downloads] }

InitDownloads ==
    /\ page \in DownloadPages
    /\ NoWidgets
    /\ active = {}
    /\ InitCommon

NextDownloads ==
    \/ DOMContentLoaded
    \/ \E b \in Downloads, type \in {"mousedown", "touchstart"} : Press(b, type)
    \/ \E b \in Downloads, type \in {"mouseup", "mouseleave", "touchend"} : Release(b, type)
    \/ \E b \in Downloads : DownloadClick(b)
    \/ FirePressTimer
    \/ PressWait

SpecDownloads == InitDownloads /\ [][NextDownloads]_vars

\* Time passes and a timeout that is due runs.
SpecDownloadsFair ==
    SpecDownloads /\ WF_vars(FirePressTimer) /\ WF_vars(PressWait)

-----------------------------------------------------------------------------
(* Properties of the menu *)

\* initMenu found both elements and attached its listeners.
MenuAttached == ready /\ page.toggle /\ page.navUl

\* How many listeners running fn are registered in the list ls.
NumListeners(ls, fn) == Cardinality({i \in DOMAIN ls : ls[i].fn = fn})

\* lastEv is a pointerdown or click on the toggle that came right after a
\* touchstart on it, less than TOUCH_IGNORE_MS later.
TouchThenFollowUp ==
    /\ MenuAttached
    /\ prevEv.touch
    /\ prevEv.gap < TOUCH_IGNORE_MS
    /\ lastEv.e.target = "toggle"
    /\ lastEv.e.type \in {"pointerdown", "click"}

\* C1: a touchstart on the toggle followed less than 900 ms later by a
\* pointerdown or click on it flips the nav list's 'show' state once over the
\* whole sequence, in either configuration: the follow-up event never adds a
\* second flip to the one the touch made (no double toggle).
C1_NoDoubleToggle == TouchThenFollowUp => prevEv.flips + lastEv.flips <= 1

\* C2: once the menu has been activated (aria-expanded has been written),
\* aria-expanded is 'true' exactly when the nav list carries 'show' and
\* 'false' exactly when it does not.
C2_AriaMatchesShow ==
    aria # "absent" => /\ (aria = "true") <=> show
                       /\ (aria = "false") <=> ~show

\* lastEv is an Enter or Space keydown on the toggle: one user activation.
KeyActivation ==
    /\ MenuAttached
    /\ lastEv.e.type = "keydown"
    /\ lastEv.e.target = "toggle"
    /\ lastEv.e.key \in {"Enter", " "}

\* C3: however often initMenu has run on the toggle, each of its listeners is
\* registered once (by the first run), and one activation flips the nav
\* list's visibility exactly once.
C3_AttachOnce ==
    /\ \A fn \in {"pointerdown", "touchstart", "toggleMenu", "keydown"} :
          NumListeners(listeners.toggle, fn) <= 1
    /\ \A fn \in {"outsideClick", "escape"} : NumListeners(listeners.document, fn) <= 1
    /\ MenuAttached =>
          /\ NumListeners(listeners.toggle, "keydown") = 1
          /\ NumListeners(listeners.document, "outsideClick") = 1
          /\ NumListeners(listeners.document, "escape") = 1
    /\ KeyActivation => lastEv.flips = 1 /\ show = ~lastEv.showBefore

\* initMenu has run twice and an activation dispatched after the second run
\* flipped the list once.
C3_Witness ==
    /\ KeyActivation
    /\ lastEv.inits >= 2
    /\ lastEv.flips = 1

\* lastEv is a click outside the nav element (and not on the toggle, whose
\* click is an activation), or an Escape keydown.
OutsideClickOrEscape ==
    /\ MenuAttached
    /\ \/ lastEv.e.type = "click" /\ lastEv.e.target = "body"
       \/ lastEv.e.type = "keydown" /\ lastEv.e.key = "Escape"

LinkClicked == ready /\ lastEv.e.type = "click" /\ lastEv.e.target \in page.links

\* C5: after a click on a navigation link exactly one link carries 'active',
\* the clicked one, whatever was active before.
C5_ClickedLinkActive == LinkClicked => active = {lastEv.e.target}

\* Another link was active before the click.
C5_Witness ==
    /\ LinkClicked
    /\ lastEv.activeBefore # {}
    /\ lastEv.e.target \notin lastEv.activeBefore
    /\ active = {lastEv.e.target}

-----------------------------------------------------------------------------
(* Properties of the scroll listener *)

\* lastEv is a scroll event that the scroll listener handled.
ScrollHandled == ready /\ lastEv.e.type = "scroll" /\ Len(page.sections) > 0

\* section i's range [offsetTop, offsetTop + offsetHeight) contains scrollY + 120
InRange(i) ==
    /\ scrollY + ScrollBias >= page.sections[i].top
    /\ scrollY + ScrollBias < page.sections[i].top + page.sections[i].height

\* link l's href targets section i
Targets(l, i) == page.href[l] = Hash(page.sections[i].id)

\* C6 as stated: after the scroll handler has run at most one link is active,
\* and an active link targets a section whose range contains scrollY + 120.
C6_ActiveIsCurrentSection ==
    ScrollHandled =>
        /\ Cardinality(active) <= 1
        /\ \A l \in active : \E i \in DOMAIN page.sections : InRange(i) /\ Targets(l, i)

\* The sections in range that some nav link targets.
LinkedInRange ==
    {i \in DOMAIN page.sections : InRange(i) /\ \E l \in page.links : Targets(l, i)}

\* C6 as amended: after the scroll handler has run, if a section targeted by a
\* nav link contains scrollY + 120, exactly one link is active: the first link
\* (in document order) targeting the last such section; if none does, the
\* active links are what they were before the scroll.  So at most one link is
\* active whenever at most one was before.
C6_ActiveFollowsScroll ==
    ScrollHandled =>
        /\ Cardinality(lastEv.activeBefore) <= 1 => Cardinality(active) <= 1
        /\ IF LinkedInRange = {}
           THEN active = lastEv.activeBefore
           ELSE LET last == CHOOSE i \in LinkedInRange : \A j \in LinkedInRange : j <= i
                IN  \E k \in DOMAIN LinkOrder :
                       /\ active = {LinkOrder[k]}
                       /\ Targets(LinkOrder[k], last)
                       /\ \A j \in DOMAIN LinkOrder : Targets(LinkOrder[j], last) => k <= j

\* A scroll moved the highlight to the link of the section now in range.
C6_Witness ==
    /\ ScrollHandled
    /\ LinkedInRange # {}
    /\ active # lastEv.activeBefore
    /\ lastEv.activeBefore # {}

-----------------------------------------------------------------------------
(* Properties of the progress bars *)

\* The integer a data-progress value configures, written out value by value:
\* the leading integer of the text, 0 when there is none.
ConfiguredTarget(attr) ==
    CASE attr = Attr(<< "3" >>) -> 3
      [] attr = Attr(<< "7", "3" >>) -> 73
      [] attr = Attr(<< "2" >>) -> 2
      [] attr = Attr(<< "-", "2" >>) -> 0 - 2
      [] attr = Attr(<< "2", ".", "7" >>) -> 2
      [] attr = Attr(<< "4", "p", "x" >>) -> 4
      [] attr = Attr(<< " ", "5" >>) -> 5
      [] attr = Attr(<< "+", "1" >>) -> 1
      [] OTHER -> 0

\* animateProgressBars has run and bar b's interval has been cleared.
AnimationDone(b) == starts >= 1 /\ bars[b].timers = << >>

Shows(b, n) ==
    /\ bars[b].text = [written |-> TRUE, pct |-> n]
    /\ bars[b].width = [written |-> TRUE, pct |-> n]

Untouched(b) == ~bars[b].text.written /\ ~bars[b].width.written

\* C7 as stated: once a bar's animation has completed its text and width are
\* the configured target, and 0 when data-progress is absent or non-numeric.
C7_FinalEqualsTarget ==
    \A b \in page.bars : AnimationDone(b) => Shows(b, ConfiguredTarget(page.progress[b]))

\* C7 as amended: once a bar's animation has completed, its text and width are
\* the configured target when that target is at least 1; when it is 0 (the
\* attribute absent, empty, non-numeric or 0) or negative, the animation has
\* written neither the text nor the width.
C7_FinalEqualsPositiveTarget ==
    \A b \in page.bars :
        AnimationDone(b) =>
            IF ConfiguredTarget(page.progress[b]) >= 1
            THEN Shows(b, ConfiguredTarget(page.progress[b]))
            ELSE Untouched(b)

\* The bar configured with "73" has finished at 73%.
C7_Witness ==
    /\ page.progress["b1"] = Attr(<< "7", "3" >>)
    /\ AnimationDone("b1")
    /\ Shows("b1", 73)

\* C8: with the skills container present, animateProgressBars is started at
\* most once, exactly when the first intersecting entry is delivered, the
\* observer is disconnected from then on, and no bar has two timers running.
C8_AnimateOnce ==
    page.habilidades /\ ready =>
        /\ starts <= 1
        /\ (starts = 1) <=> (seen >= 1)
        /\ animated <=> (seen >= 1)
        /\ observing <=> (seen = 0)
        /\ \A b \in page.bars : Len(bars[b].timers) <= 1

\* One callback delivered two intersecting entries and the animation started once.
C8_Witness ==
    /\ page.habilidades
    /\ seen >= 2
    /\ starts = 1
    /\ ~observing

-----------------------------------------------------------------------------
(* Properties of the toast *)

\* C9: after any showToast calls, once every scheduled timer has fired the
\* toast is hidden (opacity '0', class 'sr-only'); after a single call with
\* duration d, the opacity is '1' until d has passed and '0' after, and
\* 'sr-only' is added 300 ms after that.
C9_ToastHides ==
    page.toast =>
        /\ calls >= 1 /\ timers = << >> => toast.opacity = "0" /\ toast.srOnly
        /\ calls = 1 =>
              /\ clock < shownAt + DEFAULT_DURATION => toast.opacity = "1"
              /\ clock > shownAt + DEFAULT_DURATION => toast.opacity = "0"
              /\ clock < shownAt + DEFAULT_DURATION + FADE_MS => ~toast.srOnly
              /\ clock > shownAt + DEFAULT_DURATION + FADE_MS => toast.srOnly
              /\ toast.opacity = "0" /\ ~toast.srOnly =>
                    timers = << [due |-> shownAt + DEFAULT_DURATION + FADE_MS,
                                 kind |-> "hide"] >>

\* Several toasts were shown and all their timers have fired.
C9_Witness ==
    /\ page.toast
    /\ calls >= 2
    /\ timers = << >>
    /\ toast.opacity = "0" /\ toast.srOnly

\* C10: showToast never cancels a pending hide timer (a call keeps every
\* pending timer and adds its own; a timer only leaves when it is due and
\* fires), so overlapping calls can leave the toast inconsistent.
C10_TimersNeverCancelled ==
    [][ /\ calls' > calls =>
              /\ Len(timers') = Len(timers) + 1
              /\ SubSeq(timers', 1, Len(timers)) = timers
        /\ Len(timers') < Len(timers) =>
              \E i \in DOMAIN timers :
                  timers[i].due <= clock /\ timers' = Without(timers, i)
      ]_vars

\* The inconsistent state: a newer toast is at opacity '1', its own duration
\* not yet over, while an older call's timer has put 'sr-only' back.
C10_Witness ==
    /\ page.toast
    /\ calls >= 2
    /\ clock < shownAt + DEFAULT_DURATION
    /\ toast.opacity = "1"
    /\ toast.srOnly

-----------------------------------------------------------------------------
(* Properties of the copy button and the form *)

\* The copy listener is registered and the page holds the toast element.
CopyWired == ready /\ page.toast /\ listeners.copyBtn # << >>

\* C11: every click on the copy button leads to exactly one toast once its
\* clipboard write has settled (the clicks are the toasts shown plus the writes
\* still pending): 'Correo copiado al portapapeles' when the write resolves,
\* 'No se pudo copiar. Selecciona el correo manualmente.' when it rejects or
\* navigator.clipboard is missing; no failure leaves the handler uncaught.
C11_OneToastPerCopy ==
    CopyWired =>
        /\ copies.clicks = copies.toasts + pendingWrites
        /\ copies.outcome = "resolved" => copies.text = MsgCopied
        /\ copies.outcome \in {"rejected", "unavailable"} => copies.text = MsgCopyFailed
        /\ page.clipboard => copies.outcome # "unavailable"
        /\ ~page.clipboard => copies.outcome \in {"none", "unavailable"} /\ pendingWrites = 0
        /\ uncaught = 0

\* Two clicks: both writes have settled, the last one rejected, two toasts shown.
C11_Witness ==
    /\ CopyWired
    /\ copies.clicks = 2
    /\ copies.toasts = 2
    /\ pendingWrites = 0
    /\ copies.outcome = "rejected"
    /\ toast.text = MsgCopyFailed

\* lastEv is a submit of the form, handled by the submit listener.
Submitted == ready /\ page.form /\ lastEv.e.type = "submit"

\* The form's action attribute is absent or empty.
NoAction == page.formAction \in {Absent, Attr(<< >>)}

\* C12: on a submit, if the form's action is absent or empty the submission is
\* cancelled and the toast 'No hay destino configurado para el formulario' is
\* shown; otherwise the submission is not cancelled and the toast 'Enviando
\* mensaje...' is shown (a toast is shown on a page holding the toast element).
C12_SubmitGuard ==
    Submitted =>
        /\ lastEv.prevented <=> NoAction
        /\ page.toast => lastEv.said = (IF NoAction THEN MsgNoAction ELSE MsgSending)

\* A submit without an action was cancelled and its toast is on display.
C12_Witness ==
    /\ Submitted
    /\ page.formAction = Absent
    /\ lastEv.prevented
    /\ toast = [text |-> MsgNoAction, opacity |-> "1", srOnly |-> FALSE]

-----------------------------------------------------------------------------
(* Properties of the map toggle *)

\* initMapToggle found both elements and registered its click listener.
MapWired == ready /\ page.mapBtn /\ page.mapBox

\* C13: after one or more clicks on the map button its label is 'Ver mapa
\* compacto' exactly when the container carries 'expanded' and 'Ver mapa
\* completo' exactly when it does not; starting collapsed, the first click
\* gives 'Ver mapa compacto' and the second restores 'Ver mapa completo'.
C13_LabelMatchesExpanded ==
    MapWired /\ mapClicks >= 1 =>
        /\ (map.label = LabelCompact) <=> map.expanded
        /\ (map.label = LabelFull) <=> ~map.expanded
        /\ ~page.mapExpanded /\ mapClicks = 1 => map.label = LabelCompact
        /\ ~page.mapExpanded /\ mapClicks = 2 => map.label = LabelFull

\* Starting collapsed, the second click has restored 'Ver mapa completo'.
C13_Witness ==
    /\ MapWired
    /\ ~page.mapExpanded
    /\ mapClicks = 2
    /\ map = [expanded |-> FALSE, label |-> LabelFull]

-----------------------------------------------------------------------------
(* Properties of the initializers *)

MenuMissing == ~page.toggle \/ ~page.navUl

MapMissing == ~page.mapBtn \/ ~page.mapBox

\* initActiveLinks, initContactHelpers, initDownloadButtons and initCards have
\* registered their listeners on what the page holds.
OthersRan ==
    /\ NumListeners(listeners.document, "linkClick") = 1
    /\ page.form => listeners.form = << [on |-> "submit", fn |-> "submit"] >>
    /\ \A b \in page.downloads : Len(listeners.downloads[b]) = 6
    /\ \A c \in page.cards : Len(listeners.cards[c]) = 2 /\ cards[c].tabindex = "0"

\* C16: an initializer whose elements are absent is a silent no-op: with the
\* toggle or the nav list missing initMenu registers no listener at all (none
\* on the toggle, no outside-click or Escape listener on the document) and
\* marks nothing; with the map button or the map container missing
\* initMapToggle registers none; in each case the other initializers of the
\* DOMContentLoaded handler have still run.
C16_MissingElementsNoOp ==
    ready =>
        /\ MenuMissing =>
              /\ listeners.toggle = << >>
              /\ NumListeners(listeners.document, "outsideClick") = 0
              /\ NumListeners(listeners.document, "escape") = 0
              /\ dataset = {}
              /\ aria = "absent"
        /\ MapMissing => listeners.mapBtn = << >> /\ map.label = MarkupLabel
        /\ MenuMissing \/ MapMissing => OthersRan

\* The toggle exists without a nav list, the map button without its container:
\* the handler has run, two clicks on the button did nothing, and the card
\* and the download link have their listeners.
C16_Witness ==
    /\ ready
    /\ page.toggle /\ ~page.navUl
    /\ page.mapBtn /\ ~page.mapBox
    /\ lastEv.e.target = "mapBtn"
    /\ listeners.toggle = << >>
    /\ listeners.mapBtn = << >>
    /\ Len(listeners.cards["c1"]) = 2

-----------------------------------------------------------------------------
(* Properties of the cards *)

\* lastEv toggled a card.
CardToggled ==
    /\ ready
    /\ lastEv.e.target \in page.cards
    /\ \/ lastEv.e.type = "click"
       \/ lastEv.e.type = "keydown" /\ lastEv.e.key \in {"Enter", " "}

\* C14: two consecutive toggles of a card (clicks or Enter/Space keydowns, in
\* any combination) return its 'is-flipped' state to what it was before the
\* first of them; a toggle inverts the state of its card and changes no other
\* card.
C14_TwoTogglesRestore ==
    /\ \A c \in page.cards :
          Len(cardHist[c]) = 2 => cards[c].flipped = cardHist[c][1]
    /\ CardToggled =>
          /\ cards[lastEv.e.target].flipped = ~lastEv.cardsBefore[lastEv.e.target].flipped
          /\ \A c \in page.cards \ {lastEv.e.target} : cards[c] = lastEv.cardsBefore[c]

\* A card flipped in the markup was toggled twice, last by a keydown, and is
\* flipped again, while the other card, toggled once, stays flipped over.
C14_Witness ==
    /\ CardToggled
    /\ lastEv.e = [type |-> "keydown", target |-> "c1", pointerType |-> "none", key |-> " "]
    /\ cardHist["c1"] = << TRUE, FALSE >>
    /\ cards["c1"].flipped
    /\ cardHist["c2"] = << FALSE >>
    /\ cards["c2"].flipped

-----------------------------------------------------------------------------
(* Properties of the download links *)

\* Link b has been clicked and no press event has reached it since.
ClickedNoPress(b) == ready /\ sinceClick[b] = "clicked"

\* C15: after a click on a download link, if no further press event reaches
\* it, the link eventually stops carrying 'pressed' (when the 600 ms timer of
\* the click runs), whether or not a touchend, mouseup or mouseleave is
\* delivered.
C15_ClickEventuallyUnpressed ==
    \A b \in Downloads : ClickedNoPress(b) ~> (~pressed[b] \/ ~ClickedNoPress(b))

\* The mouse went down on a link and it was clicked; no release was ever
\* delivered, the timers have run and the link is not pressed.
C15_Witness ==
    /\ ClickedNoPress("d1")
    /\ held["d1"] = "mouse"
    /\ pressTimers = << >>
    /\ ~pressed["d1"]

\* C18: a download link held down (a mousedown or touchstart delivered, no
\* mouseup, touchend or mouseleave since) carries 'pressed', whatever timers
\* earlier clicks have left pending; stated for the holds that began after
\* the link's latest click.
C18_HeldIsPressed ==
    \A b \in page.downloads :
        held[b] # "none" /\ sinceClick[b] # "clicked" => pressed[b]

-----------------------------------------------------------------------------
(* Properties of the pointer-events configuration and of lastTouch *)

\* lastEv is a pointerdown on the toggle, with the pointerdown listener bound.
PointerdownHandled ==
    /\ MenuAttached
    /\ page.PointerEvent
    /\ lastEv.e.type = "pointerdown"
    /\ lastEv.e.target = "toggle"

\* lastEv flipped 'show' once and left aria-expanded at the new state.
FlippedOnce ==
    /\ lastEv.flips = 1
    /\ show = ~lastEv.showBefore
    /\ aria = (IF show THEN "true" ELSE "false")

\* lastEv changed neither 'show' nor aria-expanded.
Ignored == lastEv.flips = 0 /\ show = lastEv.showBefore /\ aria = lastEv.ariaBefore

\* C17 as stated: in the pointer-events configuration every pointerdown on the
\* toggle, of any pointer type and at any time after the previous one, flips
\* 'show' exactly once and sets aria-expanded to the new state.
C17_EveryPointerdownFlips == PointerdownHandled => FlippedOnce

\* C17 as amended: in the pointer-events configuration a pointerdown on the
\* toggle that arrives 900 ms or more after the last recorded touch (or with
\* none recorded) flips 'show' exactly once and sets aria-expanded to the new
\* state; one that arrives less than 900 ms after a touch-type pointerdown
\* that was handled is ignored, whatever its pointer type.
C17_PointerdownOutsideWindowFlips ==
    PointerdownHandled => IF lastEv.recentTouch THEN Ignored ELSE FlippedOnce

\* A mouse pointerdown that came 900 ms after a touch pointerdown closed the
\* menu the touch had opened.
C17_Witness ==
    /\ PointerdownHandled
    /\ lastEv.e.pointerType = "mouse"
    /\ lastTouch >= LoadTime
    /\ ~lastEv.recentTouch
    /\ lastEv.showBefore
    /\ FlippedOnce

\* C19: lastTouch never decreases (a write stores the current clock value),
\* and within one toggleMenu call the duplicate-window comparison reads the
\* timestamp before the call writes it: a touch pointerdown is judged against
\* the earlier touch, not against itself, so one arriving outside the window
\* is handled.
C19_LastTouchOrder ==
    /\ [](PointerdownHandled /\ lastEv.e.pointerType = "touch" /\ ~lastEv.recentTouch
             => FlippedOnce)
    /\ [][ /\ lastTouch' >= lastTouch
           /\ lastTouch' # lastTouch => lastTouch' = clock ]_vars

\* A second touch pointerdown, 900 ms after the first, was handled and moved
\* lastTouch forward.
C19_Witness ==
    /\ PointerdownHandled
    /\ lastEv.e.pointerType = "touch"
    /\ ~lastEv.recentTouch
    /\ lastEv.showBefore
    /\ lastTouch = clock
    /\ lastTouch = LoadTime + 2 * Step
    /\ FlippedOnce

-----------------------------------------------------------------------------
(* Properties of a toggle inside nav *)

\* lastEv is the click of a gesture whose first event (a pointerdown, or a
\* touchstart less than 900 ms earlier) opened the menu.
ClickAfterOpening ==
    /\ lastEv.e.type = "click"
    /\ lastEv.e.target = "toggle"
    /\ prevEv.opened
    /\ prevEv.touch => prevEv.gap < TOUCH_IGNORE_MS

\* lastEv is an event on the toggle that opened the menu.
OpeningEvent ==
    /\ lastEv.e.target = "toggle"
    /\ ~lastEv.showBefore
    /\ lastEv.flips >= 1

\* C20: with the toggle inside nav, an activation that opens the menu is not
\* undone by the document's outside-click listener: the nav list is shown
\* after all listeners have run for the opening event, and still shown after
\* they have run for the click of the same gesture.
C20_OpeningSurvivesClick ==
    MenuAttached /\ page.toggleInNav =>
        /\ OpeningEvent => show /\ lastEv.flips = 1
        /\ ClickAfterOpening => show /\ lastEv.flips = 0

\* Without pointer events: the touchstart opened the menu and the click that
\* followed went through the document's listeners and left it shown.
C20_Witness ==
    /\ MenuAttached /\ page.toggleInNav /\ ~page.PointerEvent
    /\ ClickAfterOpening
    /\ prevEv.touch
    /\ show

=============================================================================
